---- MODULE Spec2Model ----
(***************************************************************************)
(* Model of the scoring engine of the customer-support assistant:          *)
(* escalation prediction (modules/escalation_predictor.py), sentiment      *)
(* analysis (modules/sentiment_analysis.py), tone selection                *)
(* (modules/response_generator.py) and response evaluation                 *)
(* (modules/evaluation.py).                                                *)
(*                                                                         *)
(* Scores are Python floats in the source.  Here every score is an integer *)
(* number of hundredths (0.3 is 30, 1.0 is 100); averages and weighted     *)
(* sums are exact fractions <<numerator, denominator>> of hundredths with  *)
(* a positive denominator.  Floating-point rounding is not modelled.       *)
(*                                                                         *)
(* A Python dict is a function whose DOMAIN is the set of its keys.        *)
(* A call that may raise returns [ok |-> TRUE, val |-> v] on a normal      *)
(* return and [ok |-> FALSE] when an exception leaves it.                  *)
(***************************************************************************)
EXTENDS Integers, Sequences, FiniteSets, TLC

VARIABLES
    call,                \* the operation called in this behaviour: its inputs and its outcome
    evaluation_history,  \* RAGEvaluator.evaluation_history
    tracker_history,     \* CustomerSatisfactionTracker.history
    reader,              \* the locals of a thread reading the tracker while another appends
    components,          \* the objects cached by initialize_components, shared by all sessions
    session_state        \* st.session_state and the position of the script run of each session

vars == <<call, evaluation_history, tracker_history, reader, components, session_state>>

NoCall == [op |-> "none"]

----------------------------------------------------------------------------
(* Bounds of the model *)

MaxEdge == 1      \* scored messages drawn freely at each end of a sample history
MaxFill == 10     \* neutral-scored customer turns in the middle of a sample history
MaxWords == 4     \* keywords occurring in one sample message
MaxDocs == 2      \* documents returned by one retrieval
MaxFeedback == 10 \* feedback records appended to one tracker
MaxWindow == 5    \* largest window passed to rating_trend
MaxLastN == 3     \* largest last_n passed to average_rating
MaxShared == 3    \* feedback records appended while another thread reads
MaxTrend == 5     \* messages of a history passed to analyze_conversation_trend

----------------------------------------------------------------------------
(* Python helpers *)

Min(a, b) == IF a <= b THEN a ELSE b

Max(a, b) == IF a >= b THEN a ELSE b

RECURSIVE SumSeq(_)
SumSeq(s) == IF s = <<>> THEN 0 ELSE Head(s) + SumSeq(Tail(s))

\* s[-n:]
LastN(s, n) == SubSeq(s, Max(1, Len(s) - n + 1), Len(s))

\* s[:n]
FirstN(s, n) == SubSeq(s, 1, Min(n, Len(s)))

\* d.get(k, default)
Get(d, k, default) == IF k \in DOMAIN d THEN d[k] ELSE default

\* {**a, **b}
Merge(a, b) == [k \in (DOMAIN a) \cup (DOMAIN b) |-> IF k \in DOMAIN b THEN b[k] ELSE a[k]]

\* a JSON value: a number (in hundredths) or something that is not a number
Num(v) == [t |-> "num", v |-> v]

Str(s) == [t |-> "str", s |-> s]

List(items) == [t |-> "list", items |-> items]

\* a JSON string where a number is expected
NotANumber == Str("high")

IsNum(x) == x.t = "num"

Clamp_upper_only(x) ==
    IF IsNum(x) THEN [ok |-> TRUE, val |-> Min(100, x.v)] ELSE [ok |-> FALSE]

\* max(0.0, min(1.0, x)): raises TypeError unless x is a number
Clamp(x) == IF IsNum(x) THEN [ok |-> TRUE, val |-> Max(0, Min(100, x.v))] ELSE [ok |-> FALSE]

Raised == [ok |-> FALSE]

Returned(v) == [ok |-> TRUE, val |-> v]

----------------------------------------------------------------------------
(* The Semantic Judge: what chat.completions.create followed by json.loads *)
(* can produce at one call site.                                           *)

JudgeError == [kind |-> "error"]              \* the call raises or times out

JudgeUnparseable == [kind |-> "unparseable"]  \* json.loads raises

JudgeNotObject == [kind |-> "not_object"]     \* valid JSON that is not an object: result.get raises

JudgeJson(body) == [kind |-> "json", body |-> body]

JudgeNumbers == {Num(-50), Num(45), Num(150)}

JudgeFailed(judge) == judge.kind # "json"

----------------------------------------------------------------------------
(* EscalationPredictor *)

escalation_keywords == <<"manager", "supervisor", "complaint", "unacceptable",
                         "cancel", "refund", "lawsuit", "terrible", "awful",
                         "frustrated", "angry", "disappointed", "urgent">>

urgency_words == <<"urgent", "asap", "immediately", "now", "today", "emergency">>

\* sum(1 for keyword in keywords if keyword in message_lower); a message is
\* the set of listed words that occur in its lower-cased text
CountHits(keywords, message) == Cardinality({i \in DOMAIN keywords : keywords[i] \in message})

analyze_current_message(message) ==
    [escalation_keywords |-> CountHits(escalation_keywords, message),
     urgency_indicators |-> CountHits(urgency_words, message)]

ScoresOf(customer_messages) ==
    LET scored == SelectSeq(customer_messages, LAMBDA msg : "sentiment_score" \in DOMAIN msg)
    IN [i \in 1..Len(scored) |-> scored[i].sentiment_score]

MinOf(s) == CHOOSE x \in {s[i] : i \in DOMAIN s} : \A i \in DOMAIN s : x <= s[i]

extract_conversation_features(history) ==
    IF history = <<>> THEN <<>>
    ELSE
      LET customer_messages == SelectSeq(history, LAMBDA msg : msg.sender = "customer")
          agent_messages == SelectSeq(history, LAMBDA msg : msg.sender = "agent")
          features == [message_count |-> Len(customer_messages),
                       conversation_length |-> Len(history),
                       response_ratio |-> <<Len(agent_messages), Max(Len(customer_messages), 1)>>,
                       sentiment_trend |-> <<50, 1>>]
          sentiment_scores == ScoresOf(customer_messages)
          n == Min(3, Len(sentiment_scores))
      IN IF Len(sentiment_scores) >= 2
         THEN Merge(features,
                    [sentiment_trend |-> <<SumSeq(LastN(sentiment_scores, 3))
                                           - SumSeq(FirstN(sentiment_scores, 3)), n>>,
                     current_sentiment |-> sentiment_scores[Len(sentiment_scores)],
                     min_sentiment |-> MinOf(sentiment_scores)])
         ELSE features

SentimentRisk_neutral_is_risky(current_sentiment) ==
    IF current_sentiment < 30 THEN 40 ELSE IF current_sentiment <= 50 THEN 20 ELSE 0

SentimentRisk(current_sentiment) ==
    IF current_sentiment < 30 THEN 40 ELSE IF current_sentiment < 50 THEN 20 ELSE 0

KeywordRisk(count) == Min(30, count * 10)

UrgencyRisk(count) == Min(20, count * 10)

LengthRisk(message_count) ==
    IF message_count > 10 THEN 30 ELSE IF message_count > 5 THEN 10 ELSE 0

\* sentiment_trend < -0.2 for the fraction trend[1] / trend[2]
TrendRisk(trend) == IF trend[1] < (-20) * trend[2] THEN 30 ELSE 0

rule_based_prediction_uncapped_keywords(features) ==
    LET risk_score == SentimentRisk(Get(features, "current_sentiment", 50))
                      + Get(features, "escalation_keywords", 0) * 10
                      + UrgencyRisk(Get(features, "urgency_indicators", 0))
                      + LengthRisk(Get(features, "message_count", 0))
                      + TrendRisk(Get(features, "sentiment_trend", <<0, 1>>))
    IN Min(100, risk_score)

rule_based_prediction(features) ==
    LET risk_score == SentimentRisk(Get(features, "current_sentiment", 50))
                      + KeywordRisk(Get(features, "escalation_keywords", 0))
                      + UrgencyRisk(Get(features, "urgency_indicators", 0))
                      + LengthRisk(Get(features, "message_count", 0))
                      + TrendRisk(Get(features, "sentiment_trend", <<0, 1>>))
    IN Min(100, risk_score)

\* returns a JSON value: result.get("escalation_risk", 0.5) or the fallback
ai_predict_escalation(features, judge) ==
    IF JudgeFailed(judge)
    THEN Num(rule_based_prediction(features))
    ELSE Get(judge.body, "escalation_risk", Num(50))

predict_escalation(message, history, judge) ==
    LET all_features == Merge(extract_conversation_features(history),
                              analyze_current_message(message))
        escalation_risk == ai_predict_escalation(all_features, judge)
        clamped == Clamp(escalation_risk)
    IN IF clamped.ok THEN Returned(clamped.val) ELSE Returned(50)

risk_levels == <<<<0, 30, "low">>, <<30, 60, "medium">>, <<60, 80, "high">>,
                 <<80, 100, "critical">>>>

Lookup_closed_upper(table, score, default) ==
    LET hits == {i \in DOMAIN table : table[i][1] <= score /\ score <= table[i][2]}
    IN IF hits = {} THEN default
       ELSE table[CHOOSE i \in hits : \A j \in hits : i <= j][3]

\* first range of the table with min_val <= score < max_val, else the default
Lookup(table, score, default) ==
    LET hits == {i \in DOMAIN table : table[i][1] <= score /\ score < table[i][2]}
    IN IF hits = {} THEN default
       ELSE table[CHOOSE i \in hits : \A j \in hits : i <= j][3]

get_risk_level(score) ==
    Lookup(risk_levels, score, IF score >= 80 THEN "critical" ELSE "low")

----------------------------------------------------------------------------
(* Inputs of predict_escalation *)

ScoreSamples == {10, 40, 80}

CustomerTurn(score) == <<[sender |-> "customer", sentiment_score |-> score],
                         [sender |-> "agent"]>>

RECURSIVE Turns(_)
Turns(scores) == IF scores = <<>> THEN <<>> ELSE CustomerTurn(Head(scores)) \o Turns(Tail(scores))

ScoreSeqs(n) == UNION {[1..k -> ScoreSamples] : k \in 0..n}

\* conversations of customer turns answered by the agent: up to MaxEdge
\* freely scored turns, then neutral turns (score 0.5), then up to MaxEdge
\* freely scored turns
HistorySamples ==
    {Turns(head \o [i \in 1..fill |-> 50] \o tail) :
        head \in ScoreSeqs(MaxEdge), fill \in 0..MaxFill, tail \in ScoreSeqs(MaxEdge)}

MessageWords == {"manager", "refund", "angry", "urgent", "asap", "now"}

MessageSamples == {m \in SUBSET MessageWords : Cardinality(m) <= MaxWords}

EmptyBody == [k \in {} |-> 0]

EscalationJudge ==
    {JudgeError, JudgeUnparseable, JudgeNotObject, JudgeJson(EmptyBody)}
    \cup {JudgeJson([escalation_risk |-> v]) : v \in JudgeNumbers \cup {NotANumber}}

PredictEscalation ==
    /\ call = NoCall
    /\ \E message \in MessageSamples, history \in HistorySamples, judge \in EscalationJudge :
          call' = [op |-> "predict_escalation", message |-> message, history |-> history,
                   judge |-> judge,
                   features |-> Merge(extract_conversation_features(history),
                                      analyze_current_message(message)),
                   outcome |-> predict_escalation(message, history, judge)]
    /\ UNCHANGED <<evaluation_history, tracker_history, reader, components, session_state>>

----------------------------------------------------------------------------
(* SentimentAnalyzer *)

sentiment_labels == <<<<0, 20, "very_negative">>, <<20, 40, "negative">>,
                      <<40, 60, "neutral">>, <<60, 80, "positive">>,
                      <<80, 100, "very_positive">>>>

get_sentiment_label(score) ==
    Lookup(sentiment_labels, score, IF score >= 80 THEN "very_positive" ELSE "very_negative")

SentimentFallback_default_confidence ==
    [sentiment_score |-> 50, sentiment_label |-> "neutral", confidence |-> 50,
     primary_emotion |-> Str("neutral"), urgency |-> 50,
     indicators |-> List(<<"analysis_failed">>)]

\* the dict returned by the except branch (analysis_timestamp left out)
SentimentFallback ==
    [sentiment_score |-> 50, sentiment_label |-> "neutral", confidence |-> 10,
     primary_emotion |-> Str("neutral"), urgency |-> 50,
     indicators |-> List(<<"analysis_failed">>)]

analyze_sentiment(judge) ==
    IF JudgeFailed(judge) THEN SentimentFallback
    ELSE
      LET result == judge.body
          sentiment_score == Clamp(Get(result, "sentiment_score", Num(50)))
          confidence == Clamp(Get(result, "confidence", Num(50)))
          urgency == Clamp(Get(result, "urgency", Num(50)))
      IN IF ~(sentiment_score.ok /\ confidence.ok /\ urgency.ok) THEN SentimentFallback
         ELSE [sentiment_score |-> sentiment_score.val,
               sentiment_label |-> get_sentiment_label(sentiment_score.val),
               confidence |-> confidence.val,
               primary_emotion |-> Get(result, "primary_emotion", Str("neutral")),
               urgency |-> urgency.val,
               indicators |-> Get(result, "indicators", List(<<>>))]

----------------------------------------------------------------------------
(* Inputs of analyze_sentiment *)

SentimentFields == {"sentiment_score", "confidence", "primary_emotion", "urgency", "indicators"}

FieldValues(field) ==
    IF field \in {"sentiment_score", "confidence", "urgency"}
    THEN {Num(-50), Num(25), Num(150), NotANumber}
    ELSE IF field = "primary_emotion" THEN {Str("anger"), Str("satisfaction")}
    ELSE {List(<<"late delivery">>)}

\* every JSON object that gives a value to some of the five fields
SentimentBodies ==
    UNION {{body \in [present -> UNION {FieldValues(f) : f \in present}] :
               \A f \in present : body[f] \in FieldValues(f)} :
           present \in SUBSET SentimentFields}

SentimentJudge ==
    {JudgeError, JudgeUnparseable, JudgeNotObject} \cup {JudgeJson(body) : body \in SentimentBodies}

AnalyzeSentiment ==
    /\ call = NoCall
    /\ \E judge \in SentimentJudge :
          call' = [op |-> "analyze_sentiment", judge |-> judge,
                   result |-> analyze_sentiment(judge)]
    /\ UNCHANGED <<evaluation_history, tracker_history, reader, components, session_state>>

----------------------------------------------------------------------------
(* Bucket lookups over the scores of [0, 1] *)

UnitScores == 0..100

GetSentimentLabel ==
    /\ call = NoCall
    /\ \E score \in UnitScores :
          call' = [op |-> "get_sentiment_label", score |-> score,
                   label |-> get_sentiment_label(score)]
    /\ UNCHANGED <<evaluation_history, tracker_history, reader, components, session_state>>

GetRiskLevel ==
    /\ call = NoCall
    /\ \E score \in UnitScores :
          call' = [op |-> "get_risk_level", score |-> score, level |-> get_risk_level(score)]
    /\ UNCHANGED <<evaluation_history, tracker_history, reader, components, session_state>>

----------------------------------------------------------------------------
(* ResponseGenerator: tone selection *)

\* Python None
None == [t |-> "none"]

determine_response_tone_score_before_urgency(sentiment_data, satisfaction_avg) ==
    LET sentiment_score == Get(sentiment_data, "sentiment_score", 50)
        primary_emotion == Get(sentiment_data, "primary_emotion", Str("neutral"))
        urgency == Get(sentiment_data, "urgency", 50)
    IN IF satisfaction_avg # None /\ satisfaction_avg.v < 300
       THEN (IF sentiment_score < 40 THEN "apologetic" ELSE "empathetic")
       ELSE IF satisfaction_avg # None /\ satisfaction_avg.v > 430 /\ sentiment_score > 60
       THEN "reassuring"
       ELSE IF sentiment_score < 30
       THEN (IF primary_emotion \in {Str("anger"), Str("frustration")}
             THEN "empathetic" ELSE "apologetic")
       ELSE IF urgency > 80 THEN "urgent"
       ELSE IF sentiment_score < 50 THEN "empathetic"
       ELSE IF sentiment_score < 70 THEN "professional"
       ELSE "reassuring"

determine_response_tone(sentiment_data, satisfaction_avg) ==
    LET sentiment_score == Get(sentiment_data, "sentiment_score", 50)
        primary_emotion == Get(sentiment_data, "primary_emotion", Str("neutral"))
        urgency == Get(sentiment_data, "urgency", 50)
    IN IF satisfaction_avg # None /\ satisfaction_avg.v < 300
       THEN (IF sentiment_score < 40 THEN "apologetic" ELSE "empathetic")
       ELSE IF satisfaction_avg # None /\ satisfaction_avg.v > 430 /\ sentiment_score > 60
       THEN "reassuring"
       ELSE IF urgency > 80 THEN "urgent"
       ELSE IF sentiment_score < 30
       THEN (IF primary_emotion \in {Str("anger"), Str("frustration")}
             THEN "empathetic" ELSE "apologetic")
       ELSE IF sentiment_score < 50 THEN "empathetic"
       ELSE IF sentiment_score < 70 THEN "professional"
       ELSE "reassuring"

emotions == <<"anger", "frustration", "disappointment", "confusion",
              "neutral", "satisfaction", "happiness", "excitement">>

----------------------------------------------------------------------------
(* Inputs of _determine_response_tone *)

ToneScores == {0, 20, 29, 30, 39, 40, 49, 50, 60, 61, 69, 70, 100}

ToneUrgencies == {0, 50, 80, 81, 90}

SentimentDataSamples ==
    {[sentiment_score |-> sc, primary_emotion |-> Str(emotions[e]), urgency |-> u] :
        sc \in ToneScores, e \in DOMAIN emotions, u \in ToneUrgencies}

SatisfactionSamples == {None} \cup {Num(v) : v \in {100, 299, 300, 301, 429, 430, 431, 500}}

DetermineResponseTone ==
    /\ call = NoCall
    /\ \E sentiment_data \in SentimentDataSamples, satisfaction_avg \in SatisfactionSamples :
          call' = [op |-> "determine_response_tone", sentiment_data |-> sentiment_data,
                   satisfaction_avg |-> satisfaction_avg,
                   tone |-> determine_response_tone(sentiment_data, satisfaction_avg)]
    /\ UNCHANGED <<evaluation_history, tracker_history, reader, components, session_state>>

----------------------------------------------------------------------------
(* Exact fractions <<numerator, denominator>>, denominator positive *)

Frac(v) == <<v, 1>>

Abs(n) == IF n < 0 THEN -n ELSE n

RECURSIVE GCD(_, _)
GCD(a, b) == IF b = 0 THEN a ELSE GCD(b, a % b)

\* the same fraction in lowest terms
Reduce(n, d) == LET g == GCD(Abs(n), d) IN <<n \div g, d \div g>>

FAdd(a, b) == Reduce(a[1] * b[2] + b[1] * a[2], a[2] * b[2])

FMul(a, b) == Reduce(a[1] * b[1], a[2] * b[2])

\* a / b for b > 0
FDiv(a, b) == Reduce(a[1] * b[2], a[2] * b[1])

FEq(a, b) == a[1] * b[2] = b[1] * a[2]

FLe(a, b) == a[1] * b[2] <= b[1] * a[2]

FMin(a, b) == IF FLe(a, b) THEN a ELSE b

RECURSIVE FSum(_)
FSum(s) == IF s = <<>> THEN Frac(0) ELSE FAdd(Head(s), FSum(Tail(s)))

----------------------------------------------------------------------------
(* RAGEvaluator *)

\* max(0.0, min(1.0, result.get(field, 0.5))) inside try, 0.5 from except
JudgedScore(judge, field) ==
    IF JudgeFailed(judge) THEN Frac(50)
    ELSE LET score == Clamp(Get(judge.body, field, Num(50)))
         IN IF score.ok THEN Frac(score.val) ELSE Frac(50)

evaluate_context_precision(docs, judge) ==
    IF docs = <<>> THEN Frac(0) ELSE JudgedScore(judge, "precision_score")

\* not ground_truth
Falsy(ground_truth) == ground_truth \in {None, Str("")}

evaluate_context_recall_neutral_without_docs(docs, ground_truth, judge) ==
    IF docs = <<>> THEN Frac(50)
    ELSE IF Falsy(ground_truth)
    THEN LET relevance_scores == [i \in DOMAIN docs |-> Get(docs[i], "score", 50)]
             avg_relevance == Reduce(SumSeq(relevance_scores), Len(relevance_scores))
         IN FMin(Frac(100), FMul(avg_relevance, <<12, 10>>))
    ELSE JudgedScore(judge, "recall_score")

evaluate_context_recall(docs, ground_truth, judge) ==
    IF docs = <<>> THEN Frac(0)
    ELSE IF Falsy(ground_truth)
    THEN LET relevance_scores == [i \in DOMAIN docs |-> Get(docs[i], "score", 50)]
             avg_relevance == Reduce(SumSeq(relevance_scores), Len(relevance_scores))
         IN FMin(Frac(100), FMul(avg_relevance, <<12, 10>>))
    ELSE JudgedScore(judge, "recall_score")

evaluate_faithfulness(docs, judge) ==
    IF docs = <<>> THEN Frac(50) ELSE JudgedScore(judge, "faithfulness_score")

evaluate_answer_relevancy_zero_on_failure(judge) ==
    IF JudgeFailed(judge) THEN Frac(0) ELSE JudgedScore(judge, "relevancy_score")

evaluate_answer_relevancy(judge) == JudgedScore(judge, "relevancy_score")

\* the score appended for one document: the average of its similarity score
\* and the judge's rating, or the similarity score alone when the inner try fails
CombinedScore(doc, judge) ==
    LET doc_score == Get(doc, "score", 50)
        ai_score == Get(judge.body, "relevance_score", Num(50))
    IN IF JudgeFailed(judge) THEN Frac(doc_score)
       ELSE IF ~IsNum(ai_score) THEN Frac(doc_score)
       ELSE Reduce(doc_score + ai_score.v, 2)

evaluate_retrieval_accuracy_unweighted(docs, judges) ==
    IF docs = <<>> THEN Frac(0)
    ELSE FDiv(FSum([i \in DOMAIN docs |-> CombinedScore(docs[i], judges[i])]),
              Frac(Len(docs)))

evaluate_retrieval_accuracy(docs, judges) ==
    IF docs = <<>> THEN Frac(0)
    ELSE LET weights == [i \in DOMAIN docs |-> <<1, i>>]
             weighted_score == FSum([i \in DOMAIN docs |->
                                        FMul(CombinedScore(docs[i], judges[i]), weights[i])])
             total_weight == FSum(weights)
         IN FDiv(weighted_score, total_weight)

overall_weights == <<<<"context_precision", <<2, 10>>>>, <<"faithfulness", <<3, 10>>>>,
                     <<"answer_relevancy", <<3, 10>>>>, <<"retrieval_accuracy", <<2, 10>>>>>>

calculate_overall_score_equal_weights(metrics) ==
    FSum([i \in DOMAIN overall_weights |->
             FMul(Get(metrics, overall_weights[i][1], Frac(0)), <<1, 4>>)])

calculate_overall_score(metrics) ==
    FSum([i \in DOMAIN overall_weights |->
             FMul(Get(metrics, overall_weights[i][1], Frac(0)), overall_weights[i][2])])

\* "metrics", "retrieved_docs_count" and "overall_score" of evaluation_result;
\* _calculate_overall_score is given the four weighted metrics only
CompileResult(metrics, docs) ==
    [metrics |-> metrics,
     retrieved_docs_count |-> Len(docs),
     overall_score |-> calculate_overall_score(
                           [m \in {"context_precision", "faithfulness", "answer_relevancy",
                                   "retrieval_accuracy"} |-> metrics[m]])]

\* the evaluation_result of the try branch, without query, response and
\* clock readings; every sub-metric catches its own exceptions, so the
\* except branch of evaluate_response is not entered
evaluate_response(docs, ground_truth, judges) ==
    CompileResult(
        [context_precision |-> evaluate_context_precision(docs, judges.precision),
         context_recall |-> evaluate_context_recall(docs, ground_truth, judges.recall),
         faithfulness |-> evaluate_faithfulness(docs, judges.faithfulness),
         answer_relevancy |-> evaluate_answer_relevancy(judges.relevancy),
         retrieval_accuracy |-> evaluate_retrieval_accuracy(docs, judges.relevance)],
        docs)

----------------------------------------------------------------------------
(* Inputs of evaluate_response *)

DocSamples == UNION {[1..n -> {[score |-> 20], [score |-> 90]}] : n \in 0..MaxDocs}

GroundTruthSamples == {None, Str("reset the password from the login page")}

\* answers of the judge at a call site that asks for one number
RatingJudge(field) ==
    {JudgeError, JudgeJson(EmptyBody)}
    \cup {JudgeJson([k \in {field} |-> v]) : v \in JudgeNumbers}

RelevanceJudge ==
    {JudgeError} \cup {JudgeJson([relevance_score |-> v]) : v \in {Num(45), Num(150)}}

EvaluateResponse ==
    /\ call = NoCall
    /\ \E docs \in DocSamples, ground_truth \in GroundTruthSamples,
          precision \in RatingJudge("precision_score"),
          recall \in RatingJudge("recall_score"),
          faithfulness \in RatingJudge("faithfulness_score"),
          relevancy \in RatingJudge("relevancy_score") :
          \E relevance \in [DOMAIN docs -> RelevanceJudge] :
             /\ call' = [op |-> "evaluate_response", retrieved_docs |-> docs,
                         ground_truth |-> ground_truth,
                         judges |-> [precision |-> precision, recall |-> recall,
                                     faithfulness |-> faithfulness,
                                     relevancy |-> relevancy, relevance |-> relevance],
                         result |-> evaluate_response(docs, ground_truth,
                                        [precision |-> precision, recall |-> recall,
                                         faithfulness |-> faithfulness,
                                         relevancy |-> relevancy, relevance |-> relevance])]
             /\ evaluation_history' = Append(evaluation_history, call'.result)
    /\ UNCHANGED <<tracker_history, reader, components, session_state>>

----------------------------------------------------------------------------
(* Specification of the score-producing operations *)

----------------------------------------------------------------------------
(* modules/customer_satisfaction.py: CustomerSatisfactionTracker.  Ratings are
   whole numbers as int(rating) leaves them; a mean is the reduced fraction
   <<sum, count>> *)

\* s[start:]
SliceFrom(s, start) ==
    LET from == IF start < 0 THEN Max(Len(s) + start, 0) ELSE Min(start, Len(s))
    IN SubSeq(s, from + 1, Len(s))

Rational(q) == [t |-> "rational", q |-> q]

Ratings(data) == [i \in DOMAIN data |-> data[i].rating]

Mean(data, count) == Reduce(SumSeq(Ratings(data)), count)

add_feedback_record(message_id, rating, comment) ==
    [message_id |-> message_id,
     rating |-> rating,
     comment |-> IF Falsy(comment) THEN "" ELSE comment.s]

add_feedback(history, message_id, rating, comment) ==
    Append(history, add_feedback_record(message_id, rating, comment))

\* truth value of the last_n argument
Truthy(last_n) == last_n # None /\ last_n.v # 0

average_rating_ignoring_last_n(history, last_n) ==
    IF history = <<>> THEN None
    ELSE Rational(Mean(history, Len(history)))

average_rating(history, last_n) ==
    LET data == IF Truthy(last_n) THEN SliceFrom(history, -last_n.v) ELSE history
    IN IF data = <<>> THEN None
       ELSE Rational(Mean(data, Len(data)))

(* Python floats are IEEE-754 doubles.  A double x with 1/4 <= x < 16 is the
   pair <<hi, lo>> with x = (hi * 2^29 + lo) / 2^54, lo < 2^29: every such
   double is a whole multiple of 2^-54.  The window means, 0.4 and the sums
   and differences rating_trend compares are in that range for ratings of 1
   and more. *)

Limb == 536870912    \* 2^29
Places == 262144     \* 2^18: the quotient's binary places are taken 18 at a time

\* the weight of the last of the 53 leading bits of hi * 2^29 + lo
FloatUnit(hi) ==
    IF hi >= 268435456 THEN 32
    ELSE IF hi >= 134217728 THEN 16
    ELSE IF hi >= 67108864 THEN 8
    ELSE IF hi >= 33554432 THEN 4
    ELSE IF hi >= 16777216 THEN 2
    ELSE 1

FloatCarry(hi, lo) == IF lo >= Limb THEN <<hi + 1, lo - Limb>> ELSE <<hi, lo>>

\* round to nearest, ties to even; low is what lies below the unit and
\* sticky says that the exact value lies above the pair
FloatRoundAt(hi, lo, low, unit, sticky) ==
    FloatCarry(hi, lo - low
                   + (IF /\ unit > 1
                         /\ \/ 2 * low > unit
                            \/ 2 * low = unit /\ (sticky \/ (lo \div unit) % 2 = 1)
                      THEN unit ELSE 0))

FloatRoundTo(hi, lo, unit, sticky) == FloatRoundAt(hi, lo, lo % unit, unit, sticky)

FloatRound(hi, lo, sticky) == FloatRoundTo(hi, lo, FloatUnit(hi), sticky)

\* p / q of two ints: the quotient's whole part and 54 binary places, rounded
FloatDivPlaces3(whole, d1, d2, n3, q) ==
    FloatRound(whole * 33554432 + d1 * 128 + (d2 \div 2048),
               (d2 % 2048) * Places + (n3 \div q),
               n3 % q > 0)

FloatDivPlaces2(whole, d1, n2, q) ==
    FloatDivPlaces3(whole, d1, n2 \div q, (n2 % q) * Places, q)

FloatDivPlaces1(whole, n1, q) ==
    FloatDivPlaces2(whole, n1 \div q, (n1 % q) * Places, q)

FloatDiv(p, q) == FloatDivPlaces1(p \div q, (p % q) * Places, q)

FloatSum(hi, lo) == FloatRound(hi + (lo \div Limb), lo % Limb, FALSE)

FloatAdd(a, b) == FloatSum(a[1] + b[1], a[2] + b[2])

\* a - b for a >= b
FloatSub(a, b) == FloatSum(a[1] - b[1] - 1, a[2] - b[2] + Limb)

FloatLess(a, b) == a[1] < b[1] \/ (a[1] = b[1] /\ a[2] < b[2])

\* the double 0.4 = 7205759403792794 / 2^54
Float_0_4 == <<13421772, 429496730>>

\* the label from the two window means
TrendOf(first_avg, last_avg) ==
    IF FloatLess(FloatAdd(first_avg, Float_0_4), last_avg) THEN "improving"
    ELSE IF FloatLess(last_avg, FloatSub(first_avg, Float_0_4)) THEN "declining"
    ELSE "stable"

rating_trend(history, window) ==
    IF Len(history) < window * 2 THEN "insufficient_data"
    ELSE LET first == FirstN(history, window)
             last == SliceFrom(history, -window)
         IN TrendOf(FloatDiv(SumSeq(Ratings(first)), window),
                    FloatDiv(SumSeq(Ratings(last)), window))

(* Inputs *)

RatingArgs == {2, 4, 7}
LastNSamples == {None} \cup {Num(n) : n \in 0..MaxLastN}
WindowSamples == 1..MaxWindow

AddFeedback ==
    /\ call = NoCall
    /\ Len(tracker_history) < MaxFeedback
    /\ \E rating \in RatingArgs :
          tracker_history' = add_feedback(tracker_history, "m1", rating, None)
    /\ UNCHANGED <<call, evaluation_history, reader, components, session_state>>

AverageRating ==
    /\ call = NoCall
    /\ \E last_n \in LastNSamples :
          call' = [op |-> "average_rating", last_n |-> last_n,
                   result |-> average_rating(tracker_history, last_n)]
    /\ UNCHANGED <<evaluation_history, tracker_history, reader, components, session_state>>

RatingTrend ==
    /\ call = NoCall
    /\ \E window \in WindowSamples :
          call' = [op |-> "rating_trend", window |-> window,
                   result |-> rating_trend(tracker_history, window)]
    /\ UNCHANGED <<evaluation_history, tracker_history, reader, components, session_state>>

----------------------------------------------------------------------------
(* modules/sentiment_analysis.py: analyze_conversation_trend *)

MaxOf(s) == CHOOSE x \in {s[i] : i \in DOMAIN s} : \A i \in DOMAIN s : x >= s[i]

FSub(a, b) == FAdd(a, <<-b[1], b[2]>>)

FAbs(a) == <<Abs(a[1]), a[2]>>

\* s[:-n]
DropLastN(s, n) == SubSeq(s, 1, Len(s) - n)

\* the category of trend_direction
TrendCategory(trend_direction) ==
    IF ~FLe(trend_direction, Frac(10)) THEN "improving"
    ELSE IF ~FLe(Frac(-10), trend_direction) THEN "deteriorating"
    ELSE "stable"

TrendResult(scores, trend_direction) ==
    [trend |-> TrendCategory(trend_direction),
     trend_strength |-> FAbs(trend_direction),
     current_score |-> scores[Len(scores)],
     average_score |-> Reduce(SumSeq(scores), Len(scores)),
     score_range |-> MaxOf(scores) - MinOf(scores),
     message_count |-> Len(scores)]

TrendDirection(scores) ==
    IF Len(scores) >= 3
    THEN FSub(Reduce(SumSeq(LastN(scores, 3)), 3),
              IF Len(scores) > 3
              THEN Reduce(SumSeq(DropLastN(scores, 3)), Len(scores) - 3)
              ELSE Frac(scores[1]))
    ELSE Frac(scores[Len(scores)] - scores[1])

analyze_conversation_trend_last_minus_first(conversation_history) ==
    LET scores == ScoresOf(SelectSeq(conversation_history, LAMBDA msg : msg.sender = "customer"))
    IN IF Len(scores) < 2 THEN [trend |-> "insufficient_data"]
       ELSE TrendResult(scores, Frac(scores[Len(scores)] - scores[1]))

analyze_conversation_trend(conversation_history) ==
    LET scores == ScoresOf(SelectSeq(conversation_history, LAMBDA msg : msg.sender = "customer"))
    IN IF Len(scores) < 2 THEN [trend |-> "insufficient_data"]
       ELSE TrendResult(scores, TrendDirection(scores))

(* Inputs *)

\* on these scores the double-precision sums, means and differences of the
\* code fall on the same side of 0.1 and -0.1 as the exact ones, also where
\* the exact difference is 0.1 (0.15 and 0.25)
TrendScoreSamples == {15, 25, 35, 70}

TrendMessages ==
    {[sender |-> "agent"], [sender |-> "customer"]}
    \cup {[sender |-> "customer", sentiment_score |-> score] : score \in TrendScoreSamples}

TrendHistories == UNION {[1..n -> TrendMessages] : n \in 0..MaxTrend}

AnalyzeConversationTrend ==
    /\ call = NoCall
    /\ \E trend_history \in TrendHistories :
          call' = [op |-> "analyze_conversation_trend", history |-> trend_history,
                   result |-> analyze_conversation_trend(trend_history)]
    /\ UNCHANGED <<evaluation_history, tracker_history, reader, components, session_state>>

----------------------------------------------------------------------------
(* modules/sentiment_analysis.py: detect_escalation_triggers.  The outcome
   is the returned dictionary and the number of judge calls made *)

trigger_keywords == <<"manager", "supervisor", "complaint", "unacceptable",
                      "terrible", "awful", "worst", "cancel", "refund",
                      "lawsuit", "attorney", "fraud", "scam", "useless">>

\* [keyword for keyword in escalation_keywords if keyword in text_lower]
TriggersIn(text) == SelectSeq(trigger_keywords, LAMBDA keyword : keyword \in text)

TriggerResult(triggers_found, escalation_likelihood, severity, reasoning, keyword_count) ==
    [triggers_found |-> triggers_found,
     escalation_likelihood |-> escalation_likelihood,
     severity |-> severity,
     reasoning |-> reasoning,
     keyword_count |-> keyword_count]

\* the except branch
TriggerFailure == TriggerResult(<<>>, Num(0), Str("unknown"), Str("Analysis failed"), 0)

NoTriggers == TriggerResult(<<>>, Num(0), Str("low"), Str("No escalation keywords detected"), 0)

Judged(triggers_found, judge) ==
    IF judge.kind # "json" THEN TriggerFailure
    ELSE TriggerResult(triggers_found,
                       Get(judge.body, "escalation_likelihood", Num(50)),
                       Get(judge.body, "severity", Str("medium")),
                       Get(judge.body, "reasoning", Str("")),
                       Len(triggers_found))

detect_escalation_triggers_always_judged(text, judge) ==
    [returned |-> Judged(TriggersIn(text), judge), judge_calls |-> 1]

detect_escalation_triggers(text, judge) ==
    IF TriggersIn(text) # <<>>
    THEN [returned |-> Judged(TriggersIn(text), judge), judge_calls |-> 1]
    ELSE [returned |-> NoTriggers, judge_calls |-> 0]

(* Inputs *)

TriggerWords == {"manager", "scam", "angry", "urgent", "now"}

TriggerTexts == {m \in SUBSET TriggerWords : Cardinality(m) <= MaxWords}

TriggerJudge ==
    {JudgeError, JudgeUnparseable, JudgeNotObject, JudgeJson(EmptyBody),
     JudgeJson([escalation_likelihood |-> Num(80), severity |-> Str("high"),
                reasoning |-> Str("asks for a manager")]),
     JudgeJson([escalation_likelihood |-> Num(150)])}

DetectEscalationTriggers ==
    /\ call = NoCall
    /\ \E text \in TriggerTexts, judge \in TriggerJudge :
          call' = [op |-> "detect_escalation_triggers", text |-> text, judge |-> judge,
                   result |-> detect_escalation_triggers(text, judge)]
    /\ UNCHANGED <<evaluation_history, tracker_history, reader, components, session_state>>

Idle ==
    [pc |-> "idle", op |-> "none", arg |-> None, alias |-> FALSE, data |-> <<>>,
     i |-> 0, total |-> 0, first |-> <<>>, result |-> None, began |-> 0, ended |-> 0]

(* One thread reads the tracker while another appends.  A step is what runs
   between two points where the interpreter may switch threads: one
   statement, or one item of the generator that sum() consumes.  The list
   append of add_feedback is a single step. *)

\* the list that the name data refers to in average_rating: a slice is a
\* copy, self.history itself is the list the other thread appends to
DataOf(r, history) == IF r.alias THEN history ELSE r.data

Finished(r, result, history) ==
    [r EXCEPT !.pc = "done", !.result = result, !.ended = Len(history)]

WriterAppend ==
    /\ Len(tracker_history) < MaxShared
    /\ \E rating \in RatingArgs :
          tracker_history' = add_feedback(tracker_history, "m1", rating, None)
    /\ UNCHANGED <<call, evaluation_history, reader, components, session_state>>

\* data = self.history[-last_n:] if last_n else self.history
AverageBind ==
    /\ reader.pc = "idle"
    /\ \E last_n \in LastNSamples :
          reader' = [Idle EXCEPT !.pc = "average_check",
                                 !.op = "average_rating",
                                 !.arg = last_n,
                                 !.alias = ~Truthy(last_n),
                                 !.data = IF Truthy(last_n)
                                          THEN SliceFrom(tracker_history, -last_n.v)
                                          ELSE <<>>,
                                 !.began = Len(tracker_history)]
    /\ UNCHANGED <<call, evaluation_history, tracker_history, components, session_state>>

\* if not data: return None
AverageCheck ==
    /\ reader.pc = "average_check"
    /\ reader' = IF DataOf(reader, tracker_history) = <<>>
                 THEN Finished(reader, None, tracker_history)
                 ELSE [reader EXCEPT !.pc = "average_sum"]
    /\ UNCHANGED <<call, evaluation_history, tracker_history, components, session_state>>

\* one item of sum(f["rating"] for f in data), or the end of the iteration
AverageSumItem ==
    /\ reader.pc = "average_sum"
    /\ reader' = IF reader.i < Len(DataOf(reader, tracker_history))
                 THEN [reader EXCEPT !.i = @ + 1,
                                     !.total = @ + DataOf(reader, tracker_history)[reader.i + 1].rating]
                 ELSE [reader EXCEPT !.pc = "average_len"]
    /\ UNCHANGED <<call, evaluation_history, tracker_history, components, session_state>>

\* ... / len(data)
AverageDivide ==
    /\ reader.pc = "average_len"
    /\ reader' = Finished(reader,
                          Rational(Reduce(reader.total, Len(DataOf(reader, tracker_history)))),
                          tracker_history)
    /\ UNCHANGED <<call, evaluation_history, tracker_history, components, session_state>>

\* if len(self.history) < window * 2: return "insufficient_data"
TrendCheck ==
    /\ reader.pc = "idle"
    /\ \E window \in WindowSamples :
          reader' = IF Len(tracker_history) < window * 2
                    THEN Finished([Idle EXCEPT !.op = "rating_trend",
                                               !.arg = Num(window),
                                               !.began = Len(tracker_history)],
                                  Str("insufficient_data"), tracker_history)
                    ELSE [Idle EXCEPT !.pc = "trend_first",
                                      !.op = "rating_trend",
                                      !.arg = Num(window),
                                      !.began = Len(tracker_history)]
    /\ UNCHANGED <<call, evaluation_history, tracker_history, components, session_state>>

\* first = self.history[:window]
TrendFirst ==
    /\ reader.pc = "trend_first"
    /\ reader' = [reader EXCEPT !.pc = "trend_last",
                                !.first = FirstN(tracker_history, reader.arg.v)]
    /\ UNCHANGED <<call, evaluation_history, tracker_history, components, session_state>>

\* last = self.history[-window:] and the comparison of the two means
TrendLast ==
    /\ reader.pc = "trend_last"
    /\ reader' = Finished(reader,
                          Str(TrendOf(FloatDiv(SumSeq(Ratings(reader.first)), reader.arg.v),
                                      FloatDiv(SumSeq(Ratings(SliceFrom(tracker_history, -reader.arg.v))),
                                               reader.arg.v))),
                          tracker_history)
    /\ UNCHANGED <<call, evaluation_history, tracker_history, components, session_state>>

----------------------------------------------------------------------------
(* app.py: the state of the browser sessions *)

Sessions == {"A", "B"}

\* before initialize_components has run
NoComponents == [vector_index |-> "unset"]

\* the locals of process_customer_message
NoTurn == [message |-> "", sentiment_result |-> <<>>, customer_msg |-> <<>>,
           retrieved_docs |-> <<>>, services |-> <<>>]

NewSession == [conversation_history |-> <<>>, escalation_alerts |-> <<>>,
               pc |-> "idle", turn |-> NoTurn]

Init ==
    /\ call = NoCall
    /\ evaluation_history = <<>>
    /\ tracker_history = <<>>
    /\ reader = Idle
    /\ components = NoComponents
    /\ session_state = [s \in Sessions |-> NewSession]

NextScoring ==
    \/ PredictEscalation
    \/ AnalyzeSentiment
    \/ GetSentimentLabel
    \/ GetRiskLevel
    \/ AnalyzeConversationTrend

SpecScoring == Init /\ [][NextScoring]_vars

----------------------------------------------------------------------------
(* Properties of the score-producing operations *)

IsPredict == call.op = "predict_escalation"

IsAssess == call.op = "analyze_sentiment"

\* C1: when the judge call made by predict_escalation fails, the returned
\* risk is min(1.0, s + k + u + m + t) with s from the current sentiment
\* (0.4 below 0.3, 0.2 from 0.3 up to 0.5, else 0), k = min(0.3, 0.1 per
\* escalation keyword), u = min(0.2, 0.1 per urgency word), m from the
\* customer message count (0.3 above 10, 0.1 for 6..10, else 0) and t = 0.3
\* when the sentiment trend is below -0.2; it is a function of these signals.
C1_FallbackIsCappedSum ==
    (IsPredict /\ JudgeFailed(call.judge)) =>
        LET currentSentiment == Get(call.features, "current_sentiment", 50)
            escalationKeywordCount == Get(call.features, "escalation_keywords", 0)
            urgencyWordCount == Get(call.features, "urgency_indicators", 0)
            customerMessageCount == Get(call.features, "message_count", 0)
            sentimentTrend == Get(call.features, "sentiment_trend", <<0, 1>>)
            s == IF currentSentiment < 30 THEN 40
                 ELSE IF 30 <= currentSentiment /\ currentSentiment < 50 THEN 20 ELSE 0
            k == Min(30, 10 * escalationKeywordCount)
            u == Min(20, 10 * urgencyWordCount)
            m == IF customerMessageCount > 10 THEN 30
                 ELSE IF 5 < customerMessageCount /\ customerMessageCount <= 10 THEN 10 ELSE 0
            t == IF sentimentTrend[1] < (-20) * sentimentTrend[2] THEN 30 ELSE 0
        IN call.outcome = Returned(Min(100, s + k + u + m + t))

\* a failed judge call on a long, deteriorating conversation and a message
\* with four escalation keywords: the sum exceeds 1.0 and is cut to 1.0
C1_Witness ==
    /\ IsPredict
    /\ JudgeFailed(call.judge)
    /\ Get(call.features, "message_count", 0) > 10
    /\ Get(call.features, "escalation_keywords", 0) >= 4
    /\ Get(call.features, "sentiment_trend", <<0, 1>>)[1]
         < (-20) * Get(call.features, "sentiment_trend", <<0, 1>>)[2]
    /\ call.outcome = Returned(100)

\* C2: whatever the message, the history and the judge do, predict_escalation
\* returns a number in [0,1] and analyze_sentiment returns a score, a
\* confidence and an urgency in [0,1]; neither raises.
C2_ScoresInUnitInterval ==
    /\ IsPredict => (call.outcome.ok /\ call.outcome.val \in 0..100)
    /\ IsAssess => /\ call.result.sentiment_score \in 0..100
                   /\ call.result.confidence \in 0..100
                   /\ call.result.urgency \in 0..100

\* the judge answers a risk below 0 and predict_escalation returns 0
C2_Witness ==
    /\ IsPredict
    /\ call.judge = JudgeJson([escalation_risk |-> Num(-50)])
    /\ call.outcome = Returned(0)

\* C3: when the judge call of analyze_sentiment raises, times out or returns
\* something that cannot be parsed, the result is exactly score 0.5, label
\* neutral, confidence 0.1, primary emotion neutral, urgency 0.5 and the
\* single indicator "analysis_failed".
C3_ExactFallbackOnJudgeFailure ==
    (IsAssess /\ JudgeFailed(call.judge)) =>
        /\ call.result.sentiment_score = 50
        /\ call.result.sentiment_label = "neutral"
        /\ call.result.confidence = 10
        /\ call.result.primary_emotion = Str("neutral")
        /\ call.result.urgency = 50
        /\ call.result.indicators = List(<<"analysis_failed">>)

C3_Witness ==
    /\ IsAssess
    /\ call.judge = JudgeError
    /\ call.result.confidence = 10

\* C4: when the judge's answer to analyze_sentiment parses but omits one of
\* sentiment_score, confidence, primary_emotion, urgency, indicators, the
\* result is the same exact fallback as on a judge error.
C4_OmittedFieldGivesFallback ==
    (IsAssess /\ call.judge.kind = "json" /\ ~(SentimentFields \subseteq DOMAIN call.judge.body)) =>
        /\ call.result.sentiment_score = 50
        /\ call.result.sentiment_label = "neutral"
        /\ call.result.confidence = 10
        /\ call.result.primary_emotion = Str("neutral")
        /\ call.result.urgency = 50
        /\ call.result.indicators = List(<<"analysis_failed">>)

\* C5: when the judge's answer to predict_escalation parses but omits
\* escalation_risk or gives it a value that is not a number, the returned
\* risk is the rule-based fallback computed from the signals.
C5_UnusableRiskGivesRuleBased ==
    (IsPredict /\ call.judge.kind = "json"
       /\ ("escalation_risk" \notin DOMAIN call.judge.body
             \/ ~IsNum(call.judge.body.escalation_risk))) =>
        call.outcome = Returned(rule_based_prediction(call.features))

\* C6: the sentiment-label and risk-level lookups map every score of [0,1]
\* to the one bucket of the half-open tables: sentiment [0,0.2) very_negative,
\* [0.2,0.4) negative, [0.4,0.6) neutral, [0.6,0.8) positive, [0.8,1.0]
\* very_positive; risk [0,0.3) low, [0.3,0.6) medium, [0.6,0.8) high,
\* [0.8,1.0] critical; a boundary score gets the upper bucket.
C6_BucketsAreHalfOpen ==
    /\ call.op = "get_sentiment_label" =>
         call.label = (IF call.score < 20 THEN "very_negative"
                       ELSE IF call.score < 40 THEN "negative"
                       ELSE IF call.score < 60 THEN "neutral"
                       ELSE IF call.score < 80 THEN "positive"
                       ELSE "very_positive")
    /\ call.op = "get_risk_level" =>
         call.level = (IF call.score < 30 THEN "low"
                       ELSE IF call.score < 60 THEN "medium"
                       ELSE IF call.score < 80 THEN "high"
                       ELSE "critical")

\* the boundary 0.6 of both tables: the risk level is high, not medium
C6_Witness ==
    /\ call.op = "get_risk_level"
    /\ call.score = 60
    /\ call.level = "high"

----------------------------------------------------------------------------
(* Specification of tone selection *)

NextTone == DetermineResponseTone

SpecTone == Init /\ [][NextTone]_vars

\* C7: the tone is that of the first matching rule: (1) satisfaction average
\* known and below 3.0: apologetic if the score is below 0.4, else empathetic;
\* (2) satisfaction average known and above 4.3 and score above 0.6:
\* reassuring; (3) urgency above 0.8: urgent; (4) score below 0.3: empathetic
\* for anger or frustration, else apologetic; (5) score below 0.5:
\* empathetic; (6) score below 0.7: professional; (7) otherwise reassuring.
C7_ToneIsFirstMatchingRule ==
    call.op = "determine_response_tone" =>
        LET score == call.sentiment_data.sentiment_score
            urgency == call.sentiment_data.urgency
            primaryEmotion == call.sentiment_data.primary_emotion
            known == call.satisfaction_avg # None
            satisfactionAverage == call.satisfaction_avg.v
            rule1 == known /\ satisfactionAverage < 300
            rule2 == known /\ satisfactionAverage > 430 /\ score > 60
            rule3 == urgency > 80
            rule4 == score < 30
            rule5 == score < 50
            rule6 == score < 70
        IN /\ rule1 => call.tone = (IF score < 40 THEN "apologetic" ELSE "empathetic")
           /\ (~rule1 /\ rule2) => call.tone = "reassuring"
           /\ (~rule1 /\ ~rule2 /\ rule3) => call.tone = "urgent"
           /\ (~rule1 /\ ~rule2 /\ ~rule3 /\ rule4) =>
                 call.tone = (IF primaryEmotion \in {Str("anger"), Str("frustration")}
                              THEN "empathetic" ELSE "apologetic")
           /\ (~rule1 /\ ~rule2 /\ ~rule3 /\ ~rule4 /\ rule5) => call.tone = "empathetic"
           /\ (~rule1 /\ ~rule2 /\ ~rule3 /\ ~rule4 /\ ~rule5 /\ rule6) =>
                 call.tone = "professional"
           /\ (~rule1 /\ ~rule2 /\ ~rule3 /\ ~rule4 /\ ~rule5 /\ ~rule6) =>
                 call.tone = "reassuring"

\* score 0.2, urgency 0.9, no satisfaction average: urgent
C7_Witness ==
    /\ call.op = "determine_response_tone"
    /\ call.sentiment_data.sentiment_score = 20
    /\ call.sentiment_data.urgency = 90
    /\ call.satisfaction_avg = None
    /\ call.tone = "urgent"

----------------------------------------------------------------------------
(* Specification of response evaluation *)

NextEvaluation == EvaluateResponse

SpecEvaluation == Init /\ [][NextEvaluation]_vars

IsEvaluate == call.op = "evaluate_response"

\* the four weights of the overall score applied to reported metric values
WeightedOverall(contextPrecision, faithfulness, answerRelevancy, retrievalAccuracy) ==
    FAdd(FAdd(FMul(<<2, 10>>, contextPrecision), FMul(<<3, 10>>, faithfulness)),
         FAdd(FMul(<<3, 10>>, answerRelevancy), FMul(<<2, 10>>, retrievalAccuracy)))

\* C8: with at least one document and any subset of failing judge calls,
\* each judge-rated sub-metric (context precision, faithfulness, answer
\* relevancy, and context recall when ground truth is supplied) is 0.5 when
\* its own call failed and the judge's value clamped to [0,1] when its own
\* call succeeded, whatever the other calls did; evaluate returns a result.
C8_SubMetricsFallBackIndependently ==
    (IsEvaluate /\ Len(call.retrieved_docs) >= 1) =>
        LET Rated(judge, field, metric) ==
                /\ JudgeFailed(judge) => FEq(metric, Frac(50))
                /\ (judge.kind = "json" /\ field \in DOMAIN judge.body) =>
                      FEq(metric, Frac(Max(0, Min(100, judge.body[field].v))))
            metrics == call.result.metrics
        IN /\ Rated(call.judges.precision, "precision_score", metrics.context_precision)
           /\ Rated(call.judges.faithfulness, "faithfulness_score", metrics.faithfulness)
           /\ Rated(call.judges.relevancy, "relevancy_score", metrics.answer_relevancy)
           /\ call.ground_truth # None =>
                 Rated(call.judges.recall, "recall_score", metrics.context_recall)
           /\ Len(evaluation_history) = 1

\* the relevancy call fails while the precision call answers 1.5 and the
\* faithfulness call answers -0.5: 0.5, 1.0 and 0.0 side by side
C8_Witness ==
    /\ IsEvaluate
    /\ Len(call.retrieved_docs) = 2
    /\ call.judges.relevancy = JudgeError
    /\ call.judges.precision = JudgeJson([precision_score |-> Num(150)])
    /\ call.judges.faithfulness = JudgeJson([faithfulness_score |-> Num(-50)])
    /\ call.result.metrics.answer_relevancy = Frac(50)
    /\ call.result.metrics.context_precision = Frac(100)
    /\ call.result.metrics.faithfulness = Frac(0)

\* C9: in every result of evaluate the overall score is 0.2 context precision
\* + 0.3 faithfulness + 0.3 answer relevancy + 0.2 retrieval accuracy of the
\* reported metrics; context recall is reported, and another answer of the
\* recall judge alone leaves the overall score as it is.
C9_OverallIsWeightedSum ==
    IsEvaluate =>
        LET metrics == call.result.metrics
            other == evaluate_response(call.retrieved_docs,
                                       Str("reset the password from the login page"),
                                       [call.judges EXCEPT
                                           !.recall = JudgeJson([recall_score |-> Num(100)])])
        IN /\ FEq(call.result.overall_score,
                  WeightedOverall(metrics.context_precision, metrics.faithfulness,
                                  metrics.answer_relevancy, metrics.retrieval_accuracy))
           /\ "context_recall" \in DOMAIN metrics
           /\ FEq(other.overall_score, call.result.overall_score)

\* two documents, ground truth supplied, the recall judge answers 0.45 and
\* the other metrics differ from one another
C9_Witness ==
    /\ IsEvaluate
    /\ Len(call.retrieved_docs) = 2
    /\ call.ground_truth # None
    /\ call.result.metrics.context_recall = Frac(45)
    /\ call.result.metrics.context_precision = Frac(100)
    /\ call.result.metrics.faithfulness = Frac(0)
    /\ call.result.metrics.answer_relevancy = Frac(45)
    /\ ~FEq(call.result.metrics.retrieval_accuracy, Frac(0))

\* C10: with zero retrieved documents context precision, context recall and
\* retrieval accuracy are 0.0, faithfulness is 0.5 and the overall score is
\* 0.3 * 0.5 + 0.3 * answer relevancy, whatever the judge answers and
\* whether or not ground truth is supplied.
C10_ZeroDocumentDefaults ==
    (IsEvaluate /\ call.retrieved_docs = <<>>) =>
        LET metrics == call.result.metrics
        IN /\ FEq(metrics.context_precision, Frac(0))
           /\ FEq(metrics.context_recall, Frac(0))
           /\ FEq(metrics.retrieval_accuracy, Frac(0))
           /\ FEq(metrics.faithfulness, Frac(50))
           /\ FEq(call.result.overall_score,
                  FAdd(FMul(<<3, 10>>, Frac(50)), FMul(<<3, 10>>, metrics.answer_relevancy)))

\* no documents, ground truth supplied, every judge answering 1.5: answer
\* relevancy 1.0 and overall score 0.45
C10_Witness ==
    /\ IsEvaluate
    /\ call.retrieved_docs = <<>>
    /\ call.ground_truth # None
    /\ call.judges.recall = JudgeJson([recall_score |-> Num(150)])
    /\ call.judges.relevancy = JudgeJson([relevancy_score |-> Num(150)])
    /\ call.result.metrics.answer_relevancy = Frac(100)
    /\ FEq(call.result.overall_score, Frac(45))

RECURSIVE Factorial(_)
Factorial(n) == IF n <= 1 THEN 1 ELSE n * Factorial(n - 1)

\* C11: for n >= 1 documents in rank order, retrieval accuracy is
\* (sum of c_i / (i+1)) / (sum of 1 / (i+1)) over ranks i = 0..n-1, where c_i
\* is the mean of the document's score and the judge's relevance when the
\* judge call for that document succeeded and the document's score alone
\* when it failed; one document's failure leaves the other c_j as they are.
\* Both sums are scaled by 2 * n! to stay in the integers.
C11_RetrievalAccuracyIsRankWeighted ==
    (IsEvaluate /\ Len(call.retrieved_docs) >= 1) =>
        LET n == Len(call.retrieved_docs)
            twice_c(i) ==
                IF JudgeFailed(call.judges.relevance[i])
                THEN 2 * call.retrieved_docs[i].score
                ELSE call.retrieved_docs[i].score
                     + call.judges.relevance[i].body.relevance_score.v
            numerator == SumSeq([i \in 1..n |-> twice_c(i) * (Factorial(n) \div i)])
            denominator == SumSeq([i \in 1..n |-> 2 * (Factorial(n) \div i)])
        IN call.result.metrics.retrieval_accuracy[1] * denominator
             = numerator * call.result.metrics.retrieval_accuracy[2]

\* documents scored 0.2 and 0.9, the first judge call fails and the second
\* answers 1.5: c = 0.2 and 1.2, retrieval accuracy (0.2 + 0.6) / 1.5
C11_Witness ==
    /\ IsEvaluate
    /\ call.retrieved_docs = <<[score |-> 20], [score |-> 90]>>
    /\ call.judges.relevance[1] = JudgeError
    /\ call.judges.relevance[2] = JudgeJson([relevance_score |-> Num(150)])
    /\ FEq(call.result.metrics.retrieval_accuracy, <<160, 3>>)

InUnit(x) == FLe(Frac(0), x) /\ FLe(x, Frac(100))

\* C12: every metric of the result (context precision, context recall,
\* faithfulness, answer relevancy, retrieval accuracy) and the overall score
\* lie in [0,1] for documents scored in [0,1] and any numeric judge ratings.
C12_MetricsInUnitInterval ==
    IsEvaluate =>
        /\ \A m \in DOMAIN call.result.metrics : InUnit(call.result.metrics[m])
        /\ InUnit(call.result.overall_score)

\* some sub-metric of the call took its fallback because its judge call failed
UsedFallback ==
    \/ /\ call.retrieved_docs # <<>>
       /\ \/ JudgeFailed(call.judges.precision)
          \/ JudgeFailed(call.judges.faithfulness)
          \/ ~Falsy(call.ground_truth) /\ JudgeFailed(call.judges.recall)
          \/ \E i \in DOMAIN call.retrieved_docs : JudgeFailed(call.judges.relevance[i])
    \/ JudgeFailed(call.judges.relevancy)

\* C13: the result of evaluate carries a degraded flag that is true when at
\* least one sub-metric took its fallback value because its judge call
\* failed, and false when every judge call succeeded.
C13_DegradedFlagReportsFallback ==
    IsEvaluate =>
        /\ "degraded" \in DOMAIN call.result
        /\ call.result.degraded = UsedFallback

----------------------------------------------------------------------------
(* The satisfaction tracker called from one thread *)

NextSatisfaction ==
    \/ AddFeedback
    \/ AverageRating
    \/ RatingTrend

SpecSatisfaction == Init /\ [][NextSatisfaction]_vars

IsTrend == call.op = "rating_trend"
IsAverage == call.op = "average_rating"

\* the sum of the ratings at positions from..to of the tracker's log
RatingSum(from, to) == SumSeq([i \in 1..(to - from + 1) |-> tracker_history[from + i - 1].rating])

\* C14: for a window w >= 1, rating_trend is "insufficient_data" on a log of
\* fewer than 2w records; otherwise it compares the mean of the first w
\* records with the mean of the last w: "improving" when last - first > 0.4,
\* "declining" when last - first < -0.4, else "stable".  The difference of
\* the means is (sum of last - sum of first) / w.
C14_TrendComparesWindowMeans ==
    IsTrend =>
        LET w == call.window
            n == Len(tracker_history)
            delta == RatingSum(n - w + 1, n) - RatingSum(1, w)
        IN call.result =
              IF n < 2 * w THEN "insufficient_data"
              ELSE IF 5 * delta > 2 * w THEN "improving"
              ELSE IF 5 * delta < -2 * w THEN "declining"
              ELSE "stable"

C16_RatingsInRange ==
    \A i \in DOMAIN tracker_history : tracker_history[i].rating \in 1..5

----------------------------------------------------------------------------
(* The satisfaction tracker read by one thread while another appends *)

NextConcurrent ==
    \/ WriterAppend
    \/ AverageBind
    \/ AverageCheck
    \/ AverageSumItem
    \/ AverageDivide
    \/ TrendCheck
    \/ TrendFirst
    \/ TrendLast

SpecConcurrent == Init /\ [][NextConcurrent]_vars

\* what the finished read returns when nothing is appended while it runs
ReadOf(log) ==
    IF reader.op = "average_rating" THEN average_rating(log, reader.arg)
    ELSE Str(rating_trend(log, reader.arg.v))

\* C17: the value returned by average_rating or rating_trend running while
\* another thread appends equals the value the same read returns on the log
\* as it stood at one instant between the read's start and its end; the log
\* only grows, so that log is a prefix of the present one.
C17_ReadsSeeOneSnapshot ==
    reader.pc = "done" =>
        \E k \in reader.began..reader.ended :
            reader.result = ReadOf(FirstN(tracker_history, k))

----------------------------------------------------------------------------
(* Trigger detection *)

NextTriggers == DetectEscalationTriggers

SpecTriggers == Init /\ [][NextTriggers]_vars

IsDetect == call.op = "detect_escalation_triggers"

\* C18: on a text containing none of the trigger keywords the detector
\* returns an empty trigger list, likelihood 0.0, severity "low" and keyword
\* count 0, and makes no judge call, whatever the judge would have answered.
C18_NoKeywordNoJudgeCall ==
    (IsDetect /\ \A i \in DOMAIN trigger_keywords : trigger_keywords[i] \notin call.text) =>
        /\ call.result.returned.triggers_found = <<>>
        /\ call.result.returned.escalation_likelihood = Num(0)
        /\ call.result.returned.severity = Str("low")
        /\ call.result.returned.keyword_count = 0
        /\ call.result.judge_calls = 0

\* a text with words of the other lists only, and a judge that would fail
C18_Witness ==
    /\ IsDetect
    /\ call.text = {"angry", "now"}
    /\ call.judge = JudgeError
    /\ call.result.returned = NoTriggers
    /\ call.result.judge_calls = 0

\* C19: on a text containing a trigger keyword, when the judge call fails,
\* the detector returns likelihood 0.5 and severity "medium".
C19_JudgeFailureGivesNeutral ==
    (IsDetect /\ TriggersIn(call.text) # <<>> /\ JudgeFailed(call.judge)) =>
        /\ call.result.returned.escalation_likelihood = Num(50)
        /\ call.result.returned.severity = Str("medium")

\* C20: the detector's keyword list contains every keyword of the signal
\* extractor's escalation list, so a message with escalation keyword count
\* above 0 has a non-empty list of triggers found.
C20_TriggerListIsSuperset ==
    IsDetect =>
        /\ \A i \in DOMAIN escalation_keywords :
              \E j \in DOMAIN trigger_keywords : trigger_keywords[j] = escalation_keywords[i]
        /\ analyze_current_message(call.text).escalation_keywords > 0
              => call.result.returned.triggers_found # <<>>

----------------------------------------------------------------------------
(* The sentiment trend of a conversation *)

IsTrendAnalysis == call.op = "analyze_conversation_trend"

\* the sentiment scores of the customer messages of the analysed history
TrendScores == ScoresOf(SelectSeq(call.history, LAMBDA msg : msg.sender = "customer"))

\* the direction for a delta of numerator / denominator hundredths
DirectionOf(numerator, denominator) ==
    IF numerator > 10 * denominator THEN "improving"
    ELSE IF numerator < (-10) * denominator THEN "deteriorating"
    ELSE "stable"

----------------------------------------------------------------------------
(* The sentiment trend signal of the escalation predictor *)

\* the sentiment scores of the customer messages of the history of a prediction
PriorScores == ScoresOf(SelectSeq(call.history, LAMBDA msg : msg.sender = "customer"))

\* C28: the sentiment_trend feature of a non-empty history is (average of
\* the last up-to-3 customer sentiment scores) - (average of the first
\* up-to-3), and 0 when fewer than 2 customer messages carry a score; an
\* empty history has no such feature and the rule reads it as 0.
C28_SentimentTrendSignal ==
    IsPredict =>
        LET n == Min(3, Len(PriorScores))
            sentimentTrend == Get(call.features, "sentiment_trend", <<0, 1>>)
        IN IF Len(PriorScores) < 2
           THEN FEq(sentimentTrend, Frac(0))
           ELSE FEq(sentimentTrend,
                    FSub(<<SumSeq(LastN(PriorScores, 3)), n>>,
                         <<SumSeq(FirstN(PriorScores, 3)), n>>))

----------------------------------------------------------------------------
(* The first message of a session *)

\* C29: with an empty history and a failed judge call the returned risk is
\* the keyword term (at most 0.3) plus the urgency term (at most 0.2), so at
\* most 0.5 whatever the message, and its risk level is not high or critical.
C29_FirstMessageFallbackAtMostHalf ==
    (IsPredict /\ call.history = <<>> /\ JudgeFailed(call.judge)) =>
        /\ call.outcome.ok
        /\ call.outcome.val = Min(30, 10 * CountHits(escalation_keywords, call.message))
                              + Min(20, 10 * CountHits(urgency_words, call.message))
        /\ call.outcome.val <= 50
        /\ get_risk_level(call.outcome.val) \notin {"high", "critical"}

\* "urgent" counts as a keyword and as an urgency word: three keywords and
\* two urgency words reach 0.5, a medium risk
C29_Witness ==
    /\ IsPredict
    /\ call.history = <<>>
    /\ call.judge = JudgeError
    /\ call.message = {"manager", "refund", "urgent", "asap"}
    /\ call.outcome = Returned(50)
    /\ get_risk_level(call.outcome.val) = "medium"

----------------------------------------------------------------------------
(* KnowledgeProcessor: articles are dictionaries, a text is its sequence of
   words *)

MaxArticles == 2

LongContent == 300

Words(n) == [i \in 1..n |-> "word"]

\* f"doc_{int(time.time())}"
DocId(now) == IF now = 1 THEN "doc_1" ELSE "doc_2"

\* f"{doc['title']} {doc['content']}"
Searchable(title, content) == title \o content

process_article(article, now) ==
    LET searchable_content == Searchable(Get(article, "title", <<>>),
                                         Get(article, "content", <<>>))
    IN [id |-> Get(article, "id", DocId(now)),
        title |-> Get(article, "title", <<>>),
        content |-> searchable_content,
        category |-> Get(article, "category", "general"),
        tags |-> Get(article, "tags", <<>>),
        priority |-> Get(article, "priority", "medium"),
        created_at |-> now,
        last_updated |-> Get(article, "last_updated", ""),
        searchable_content |-> searchable_content]

process_documents(articles, now) ==
    [i \in 1..Len(articles) |-> process_article(articles[i], now)]

ArticleIds == {[k \in {} |-> ""], [id |-> "kb_test"], [id |-> "kb_002"]}

ArticleTitles == {[k \in {} |-> <<>>], [title |-> <<"Sample", "Title">>]}

ArticleContents ==
    {[k \in {} |-> <<>>]} \cup {[content |-> Words(n)] : n \in {0, 5, LongContent}}

ArticleSamples ==
    {Merge(Merge(id, title), Merge(content, [category |-> "test", priority |-> "low"])) :
        id \in ArticleIds, title \in ArticleTitles, content \in ArticleContents}

Clock == {1, 2}

ProcessDocuments ==
    /\ call = NoCall
    /\ \E n \in 0..MaxArticles, now \in Clock :
          \E articles \in [1..n -> ArticleSamples] :
              call' = [op |-> "process_documents", articles |-> articles,
                       docs |-> process_documents(articles, now)]
    /\ UNCHANGED <<evaluation_history, tracker_history, reader, components, session_state>>

NextKnowledge == ProcessDocuments

SpecKnowledge == Init /\ [][NextKnowledge]_vars

IsProcess == call.op = "process_documents"

\* the documents produced for the article: its chunks
ChunksOf(article) ==
    {j \in DOMAIN call.docs : Get(call.docs[j], "parent_id", "") = article.id}

\* C26: an article with a content of 300 words yields more than one chunk
\* document; each chunk has the article's id as parent_id, all carry the
\* same total_chunks and their chunk_index values are exactly 0..n-1.
C26_LongArticleIsChunked ==
    IsProcess =>
        \A i \in DOMAIN call.articles :
            LET article == call.articles[i]
            IN ("id" \in DOMAIN article /\ Len(Get(article, "content", <<>>)) >= LongContent) =>
                  /\ Cardinality(ChunksOf(article)) > 1
                  /\ \A j, k \in ChunksOf(article) :
                        Get(call.docs[j], "total_chunks", 0) = Get(call.docs[k], "total_chunks", 1)
                  /\ {Get(call.docs[j], "chunk_index", -1) : j \in ChunksOf(article)}
                        = 0..(Cardinality(ChunksOf(article)) - 1)

----------------------------------------------------------------------------
(* VectorStore.similarity_search.  index is "none" when _initialize_index
   failed and "connected" otherwise; a retrieval is what the embedding call
   and the index query do *)

fallback_search ==
    <<[id |-> "fallback_001", score |-> 70, title |-> "General Help"],
      [id |-> "fallback_002", score |-> 60, title |-> "Account Support"]>>

EmbeddingError == [kind |-> "embedding_error"]

QueryError == [kind |-> "query_error"]

NotCalled == [kind |-> "not_called"]

Matches(docs) == [kind |-> "matches", docs |-> docs]

similarity_search(index, retrieval) ==
    IF index = "none" THEN fallback_search
    ELSE IF retrieval.kind # "matches" THEN fallback_search
    ELSE retrieval.docs

\* the external services a similarity search calls
SearchContacts(index, retrieval) ==
    IF index = "none" THEN {}
    ELSE IF retrieval = EmbeddingError THEN {"embedding"}
    ELSE {"embedding", "vector_store"}

RetrievalSamples ==
    {EmbeddingError, QueryError,
     Matches(<<[id |-> "kb_001", score |-> 90, title |-> "How to Reset Your Password"]>>)}

----------------------------------------------------------------------------
(* ResponseGenerator.generate_response.  generation is the judge's answer
   to the chat completion: "failed" or the generated text *)

fallback_responses ==
    [empathetic |-> "I understand your concern and I'm here to help.",
     professional |-> "Thank you for contacting us.",
     apologetic |-> "I apologize for any inconvenience this has caused.",
     reassuring |-> "I'm confident we can resolve this together.",
     urgent |-> "I understand this is urgent for you."]

generate_ai_response(tone, generation) ==
    IF generation = "failed" THEN fallback_responses[tone] ELSE generation

generate_response(retrieved_docs, sentiment_data, satisfaction_avg, generation) ==
    LET tone == determine_response_tone(sentiment_data, satisfaction_avg)
    IN [response |-> generate_ai_response(tone, generation),
        tone |-> tone,
        context_used |-> Len(retrieved_docs)]

GenerationSamples == {"failed", "Please use the reset link on the login page."}

----------------------------------------------------------------------------
(* Judge answers of one evaluate_response call: every call site fails, or
   every call site answers *)

SiteJudge(field, rating, up) ==
    IF up THEN JudgeJson([k \in {field} |-> Num(rating)]) ELSE JudgeError

EvaluationJudges(docs, up) ==
    [precision |-> SiteJudge("precision_score", 80, up),
     recall |-> SiteJudge("recall_score", 80, up),
     faithfulness |-> SiteJudge("faithfulness_score", 90, up),
     relevancy |-> SiteJudge("relevancy_score", 70, up),
     relevance |-> [i \in DOMAIN docs |-> SiteJudge("relevance_score", 45, up)]]

SentimentAnswer(up) ==
    IF up THEN JudgeJson([sentiment_score |-> Num(25), confidence |-> Num(90),
                          primary_emotion |-> Str("anger"), urgency |-> Num(60)])
    ELSE JudgeError

----------------------------------------------------------------------------
(* evaluate.py: the batch evaluation *)

MaxQueries == 2

\* config.OPENAI_API_KEY and config.PINECONE_API_KEY; an absent key is None,
\* falsy like the empty string
NoKey == ""

OpenAIKeys == {NoKey, "default_openai_key", "sk-live"}

PineconeKeys == {NoKey, "default_pinecone_key", "pc-live"}

have_real_keys_openai_only(openai_key, pinecone_key) ==
    openai_key # NoKey /\ openai_key # "default_openai_key"

have_real_keys(openai_key, pinecone_key) ==
    /\ openai_key # NoKey /\ openai_key # "default_openai_key"
    /\ pinecone_key # NoKey /\ pinecone_key # "default_pinecone_key"

metric_names == <<"context_precision", "context_recall", "faithfulness",
                  "answer_relevancy", "retrieval_accuracy">>

DryRunEntry(q) ==
    [query |-> q, dry_run |-> TRUE,
     metrics |-> [k \in {metric_names[i] : i \in DOMAIN metric_names} |-> Frac(0)]]

\* one pass of the loop over the queries; service holds what the external
\* services do during this pass
LiveEntry(q, index, service) ==
    LET retrieved == similarity_search(index, service.retrieval)
        sent == analyze_sentiment(SentimentAnswer(service.sentiment))
        resp == generate_response(retrieved, sent, None, service.generation)
        eval_res == evaluate_response(retrieved, None, EvaluationJudges(retrieved, service.evaluation))
    IN [query |-> q,
        response |-> resp.response,
        retrieved_docs |-> [i \in DOMAIN retrieved |-> Get(retrieved[i], "title", "")],
        overall_score |-> eval_res.overall_score,
        metrics |-> eval_res.metrics]

\* VectorStore() lists the indexes; each pass calls the judge for the
\* sentiment, the response and the evaluation
LiveContacts(index, services) ==
    {"vector_store"}
    \cup UNION {SearchContacts(index, services[i].retrieval) \cup {"judge"} : i \in DOMAIN services}

evaluate_without_fallbacks(queries, dry_run, openai_key, pinecone_key, index, services) ==
    IF dry_run \/ ~have_real_keys(openai_key, pinecone_key)
    THEN [outcome |-> Returned([dry_run |-> TRUE,
                                results |-> [i \in DOMAIN queries |-> DryRunEntry(queries[i])],
                                overall_average |-> Frac(0)]),
          contacted |-> {}]
    ELSE [outcome |-> IF queries = <<>>
                         \/ \E i \in DOMAIN services :
                               \/ index = "none"
                               \/ services[i].retrieval.kind # "matches"
                               \/ ~services[i].sentiment
                               \/ services[i].generation = "failed"
                               \/ ~services[i].evaluation
                      THEN Raised
                      ELSE Returned([dry_run |-> FALSE, query_count |-> Len(queries)]),
          contacted |-> LiveContacts(index, services)]

evaluate(queries, dry_run, openai_key, pinecone_key, index, services) ==
    IF dry_run \/ ~have_real_keys(openai_key, pinecone_key)
    THEN [outcome |-> Returned([dry_run |-> TRUE,
                                results |-> [i \in DOMAIN queries |-> DryRunEntry(queries[i])],
                                overall_average |-> Frac(0)]),
          contacted |-> {}]
    ELSE LET results == [i \in DOMAIN queries |-> LiveEntry(queries[i], index, services[i])]
         IN [outcome |-> IF results = <<>> THEN Raised
                         ELSE Returned([dry_run |-> FALSE,
                                        query_count |-> Len(results),
                                        overall_average |->
                                            FDiv(FSum([i \in DOMAIN results |-> results[i].overall_score]),
                                                 Frac(Len(results))),
                                        results |-> results]),
             contacted |-> LiveContacts(index, services)]

QuerySamples == {"I want a refund", "Password reset not working"}

\* without an index the embedding and the query are never called
ServiceSamples(index) ==
    [retrieval : IF index = "connected" THEN RetrievalSamples ELSE {NotCalled},
     sentiment : BOOLEAN, generation : GenerationSamples, evaluation : BOOLEAN]

\* in a dry run no service object is built, so nothing the services would
\* do is an input of the run
Evaluate ==
    /\ call = NoCall
    /\ \E n \in 0..MaxQueries, dry_run \in BOOLEAN,
          openai_key \in OpenAIKeys, pinecone_key \in PineconeKeys :
          \E queries \in [1..n -> QuerySamples],
             index \in IF dry_run \/ ~have_real_keys(openai_key, pinecone_key)
                       THEN {"unset"} ELSE {"none", "connected"} :
             \E services \in IF dry_run \/ ~have_real_keys(openai_key, pinecone_key)
                             THEN {<<>>} ELSE [1..n -> ServiceSamples(index)] :
                call' = [op |-> "evaluate", queries |-> queries, dry_run |-> dry_run,
                         openai_key |-> openai_key, pinecone_key |-> pinecone_key,
                         index |-> index, services |-> services,
                         run |-> evaluate(queries, dry_run, openai_key, pinecone_key,
                                          index, services)]
    /\ UNCHANGED <<evaluation_history, tracker_history, reader, components, session_state>>

NextBatch == Evaluate

SpecBatch == Init /\ [][NextBatch]_vars

IsBatch == call.op = "evaluate"

\* the run is live: no --dry-run flag and both keys are real
IsLive ==
    /\ ~call.dry_run
    /\ call.openai_key \notin {NoKey, "default_openai_key"}
    /\ call.pinecone_key \notin {NoKey, "default_pinecone_key"}

\* C24: with the --dry-run flag, or with a credential absent, the batch
\* evaluation calls no external service and returns a report marked dry-run
\* with one entry per query whose five metrics are all 0.0.
C24_DryRunCallsNothing ==
    (IsBatch /\ (call.dry_run \/ call.openai_key = NoKey \/ call.pinecone_key = NoKey)) =>
        /\ call.run.contacted = {}
        /\ call.run.outcome.ok
        /\ call.run.outcome.val.dry_run
        /\ Len(call.run.outcome.val.results) = Len(call.queries)
        /\ \A i \in DOMAIN call.queries :
              /\ call.run.outcome.val.results[i].query = call.queries[i]
              /\ DOMAIN call.run.outcome.val.results[i].metrics
                    = {"context_precision", "context_recall", "faithfulness",
                       "answer_relevancy", "retrieval_accuracy"}
              /\ \A m \in DOMAIN call.run.outcome.val.results[i].metrics :
                    call.run.outcome.val.results[i].metrics[m] = Frac(0)

\* no flag, a real judge key, no vector store key, two queries
C24_Witness ==
    /\ IsBatch
    /\ ~call.dry_run
    /\ call.openai_key = "sk-live"
    /\ call.pinecone_key = NoKey
    /\ Len(call.queries) = 2
    /\ call.run.contacted = {}
    /\ call.run.outcome.val.dry_run

----------------------------------------------------------------------------
(* RAGEvaluator.get_evaluation_summary over an evaluation history *)

summary_metrics == <<"context_precision", "faithfulness", "answer_relevancy",
                     "retrieval_accuracy">>

OverallScores(evaluations) == [i \in DOMAIN evaluations |-> evaluations[i].overall_score]

FMean(s) == FDiv(FSum(s), Frac(Len(s)))

SummaryTrend(recent_evaluations) ==
    IF Len(recent_evaluations) >= 5
    THEN LET half == Len(recent_evaluations) \div 2
             recent_avg == FMean(OverallScores(SliceFrom(recent_evaluations, half)))
             earlier_avg == FMean(OverallScores(SubSeq(recent_evaluations, 1, half)))
         IN IF ~FLe(recent_avg, FAdd(earlier_avg, Frac(5))) THEN "improving"
            ELSE IF ~FLe(FSub(earlier_avg, Frac(5)), recent_avg) THEN "declining"
            ELSE "stable"
    ELSE "insufficient_data"

\* last_evaluation, a clock reading, is left out
get_evaluation_summary(history, last_n) ==
    IF history = <<>> THEN [message |-> "No evaluations available"]
    ELSE LET recent_evaluations == SliceFrom(history, -last_n)
         IN [evaluation_count |-> Len(recent_evaluations),
             average_metrics |->
                 [metric \in {summary_metrics[i] : i \in DOMAIN summary_metrics} |->
                     FMean([i \in DOMAIN recent_evaluations |->
                               Get(recent_evaluations[i].metrics, metric, Frac(0))])],
             overall_average |-> FMean(OverallScores(recent_evaluations)),
             trend |-> SummaryTrend(recent_evaluations)]

----------------------------------------------------------------------------
(* app.py: process_customer_message, one step per call of a component, and
   the Clear Conversation button.  Streamlit runs one script per session at
   a time; the components are shared by all sessions *)

MaxTurns == 2

ESCALATION_THRESHOLD == 30

AngryText == "urgent: refund me now or get me your manager"

SessionMessages == {AngryText}

\* the listed words that occur in the lower-cased text
ListedWords(text) ==
    IF text = AngryText THEN {"urgent", "refund", "now", "manager"} ELSE {}

SessionEscalationJudge == {JudgeError, JudgeJson([escalation_risk |-> Num(30)])}

SessionRetrievals ==
    {QueryError, Matches(<<[id |-> "kb_001", score |-> 90, title |-> "How to Reset Your Password"]>>)}

Busy == {s \in Sessions : session_state[s].pc # "idle"}

\* every finished turn has left one evaluation in the shared history
TurnsBegun == Len(evaluation_history) + Cardinality(Busy)

InitializeComponents ==
    /\ components = NoComponents
    /\ \E vector_index \in {"none", "connected"} :
          components' = [vector_index |-> vector_index]
    /\ UNCHANGED <<call, evaluation_history, tracker_history, reader, session_state>>

\* lines 239-248
AnalyzeMessage(s) ==
    /\ components # NoComponents
    /\ session_state[s].pc = "idle"
    /\ TurnsBegun < MaxTurns
    /\ \E message \in SessionMessages, up \in BOOLEAN :
          session_state' =
             [session_state EXCEPT
                ![s].pc = "sentiment",
                ![s].turn = [NoTurn EXCEPT
                    !.message = message,
                    !.sentiment_result = analyze_sentiment(SentimentAnswer(up)),
                    !.customer_msg = Merge([sender |-> "customer", content |-> message],
                                           analyze_sentiment(SentimentAnswer(up))),
                    !.services = [sentiment |-> up]]]
    /\ UNCHANGED <<call, evaluation_history, tracker_history, reader, components>>

EscalationAlert(escalation_risk) ==
    [message |-> "High escalation risk detected in customer message",
     risk |-> escalation_risk]

AlertsAfter(escalation_alerts, escalation_risk) ==
    IF escalation_risk > ESCALATION_THRESHOLD
    THEN Append(escalation_alerts, EscalationAlert(escalation_risk))
    ELSE escalation_alerts

Predicted(session, escalation_risk, judge) ==
    [session EXCEPT
        !.pc = "appended",
        !.turn.customer_msg = Merge(@, [escalation_risk |-> escalation_risk]),
        !.turn.services = Merge(@, [escalation |-> judge]),
        !.escalation_alerts = AlertsAfter(@, escalation_risk),
        !.conversation_history =
            Append(@, Merge(session.turn.customer_msg, [escalation_risk |-> escalation_risk]))]

\* lines 251-265
PredictRisk(s) ==
    /\ session_state[s].pc = "sentiment"
    /\ \E judge \in SessionEscalationJudge :
          session_state' =
             [session_state EXCEPT
                ![s] = Predicted(@, predict_escalation(ListedWords(@.turn.message),
                                                       @.conversation_history, judge).val,
                                 judge)]
    /\ UNCHANGED <<call, evaluation_history, tracker_history, reader, components>>

\* line 270
Retrieve(s) ==
    /\ session_state[s].pc = "appended"
    /\ \E retrieval \in IF components.vector_index = "connected"
                        THEN SessionRetrievals ELSE {NotCalled} :
          session_state' =
             [session_state EXCEPT
                ![s].pc = "retrieved",
                ![s].turn.retrieved_docs = similarity_search(components.vector_index, retrieval),
                ![s].turn.services = Merge(@, [retrieval |-> retrieval])]
    /\ UNCHANGED <<call, evaluation_history, tracker_history, reader, components>>

AgentMessage(response_data, retrieved_docs) ==
    [sender |-> "agent", content |-> response_data.response,
     tone |-> Get(response_data, "tone", "neutral"),
     retrieved_docs |-> Len(retrieved_docs)]

GenerateResponse_without_scores(s) ==
    /\ session_state[s].pc \in {"sentiment", "retrieved"}
    /\ \E generation \in GenerationSamples :
          session_state' =
             [session_state EXCEPT
                ![s].pc = "generated",
                ![s].turn.services = Merge(@, [generation |-> generation]),
                ![s].conversation_history =
                    Append(@, AgentMessage(
                                  generate_response(session_state[s].turn.retrieved_docs,
                                                    session_state[s].turn.sentiment_result,
                                                    None, generation),
                                  session_state[s].turn.retrieved_docs))]
    /\ UNCHANGED <<call, evaluation_history, tracker_history, reader, components>>

\* lines 273-292
GenerateResponse(s) ==
    /\ session_state[s].pc = "retrieved"
    /\ \E generation \in GenerationSamples :
          session_state' =
             [session_state EXCEPT
                ![s].pc = "generated",
                ![s].turn.services = Merge(@, [generation |-> generation]),
                ![s].conversation_history =
                    Append(@, AgentMessage(
                                  generate_response(session_state[s].turn.retrieved_docs,
                                                    session_state[s].turn.sentiment_result,
                                                    None, generation),
                                  session_state[s].turn.retrieved_docs))]
    /\ UNCHANGED <<call, evaluation_history, tracker_history, reader, components>>

\* agent_msg['evaluation'] = evaluation_metrics, on the message already in the history
WithEvaluation(conversation_history, evaluation_metrics) ==
    [conversation_history EXCEPT
        ![Len(conversation_history)] = Merge(@, [evaluation |-> evaluation_metrics])]

\* lines 295-303: the evaluator appends to its own history, the script reruns
EvaluateTurn(s) ==
    /\ session_state[s].pc = "generated"
    /\ \E up \in BOOLEAN :
          /\ evaluation_history' =
                Append(evaluation_history,
                       evaluate_response(session_state[s].turn.retrieved_docs, None,
                                         EvaluationJudges(session_state[s].turn.retrieved_docs, up)))
          /\ session_state' =
                [session_state EXCEPT
                   ![s].pc = "idle",
                   ![s].turn = NoTurn,
                   ![s].conversation_history =
                       WithEvaluation(@, evaluation_history'[Len(evaluation_history')])]
    /\ UNCHANGED <<call, tracker_history, reader, components>>

ClearConversation_keeps_alerts(s) ==
    /\ components # NoComponents
    /\ session_state[s].pc = "idle"
    /\ session_state' = [session_state EXCEPT ![s].conversation_history = <<>>]
    /\ UNCHANGED <<call, evaluation_history, tracker_history, reader, components>>

\* lines 115-118
ClearConversation(s) ==
    /\ components # NoComponents
    /\ session_state[s].pc = "idle"
    /\ session_state' = [session_state EXCEPT ![s].conversation_history = <<>>,
                                              ![s].escalation_alerts = <<>>]
    /\ UNCHANGED <<call, evaluation_history, tracker_history, reader, components>>

NextSession ==
    \/ InitializeComponents
    \/ \E s \in Sessions : AnalyzeMessage(s)
    \/ \E s \in Sessions : PredictRisk(s)
    \/ \E s \in Sessions : Retrieve(s)
    \/ \E s \in Sessions : GenerateResponse(s)
    \/ \E s \in Sessions : EvaluateTurn(s)
    \/ \E s \in Sessions : ClearConversation(s)

SpecSession == Init /\ [][NextSession]_vars

----------------------------------------------------------------------------
(* Properties of the sessions *)

\* C21: in every step that selects the tone and generates the response for
\* a message of a session, the sentiment assessment and the escalation
\* prediction of that message have completed, with the judge's result or
\* with the fallback: the customer message in the history carries both
\* results and the tone is selected from that sentiment result.
C21_ScoringBeforeResponse ==
    [][\A s \in Sessions :
          LET before == session_state[s].conversation_history
              after == session_state'[s].conversation_history
          IN (Len(after) = Len(before) + 1 /\ after[Len(after)].sender = "agent") =>
                /\ {"sentiment", "escalation"} \subseteq DOMAIN session_state[s].turn.services
                /\ before # <<>>
                /\ before[Len(before)] = session_state[s].turn.customer_msg
                /\ {"sentiment_score", "escalation_risk"} \subseteq DOMAIN before[Len(before)]
                /\ after[Len(after)].tone
                      = determine_response_tone(session_state[s].turn.sentiment_result, None)
      ]_vars

\* both judge calls of the turn failed and the response has been generated
\* with the tone of the fallback sentiment
C21_Witness ==
    \E s \in Sessions :
        /\ session_state[s].pc = "generated"
        /\ session_state[s].turn.services.sentiment = FALSE
        /\ session_state[s].turn.services.escalation = JudgeError
        /\ session_state[s].turn.sentiment_result = SentimentFallback
        /\ session_state[s].conversation_history[2].tone = "professional"

\* C22: when the index is unavailable or the similarity search fails, the
\* turn goes on with no retrieved document: an empty list, and a document
\* count of 0 in the agent message.
C22_FailedRetrievalGivesNoDocuments ==
    \A s \in Sessions :
        (/\ session_state[s].pc \in {"retrieved", "generated"}
         /\ session_state[s].turn.services.retrieval.kind # "matches") =>
            /\ session_state[s].turn.retrieved_docs = <<>>
            /\ session_state[s].pc = "generated" =>
                  session_state[s].conversation_history[
                      Len(session_state[s].conversation_history)].retrieved_docs = 0

\* what a session reads from components['evaluator']
HistorySeenBy(s) == evaluation_history

SummarySeenBy(s) == get_evaluation_summary(HistorySeenBy(s), 10)

\* C23: a step of the processing of a message of one session leaves the
\* evaluation history and the evaluation summary seen by every other
\* session unchanged.
C23_SessionsIsolated ==
    [][\A a, b \in Sessions :
          (a # b /\ session_state'[a] # session_state[a]) =>
              /\ HistorySeenBy(b)' = HistorySeenBy(b)
              /\ SummarySeenBy(b)' = SummarySeenBy(b)
      ]_vars

CustomerMessages(s) ==
    SelectSeq(session_state[s].conversation_history, LAMBDA msg : msg.sender = "customer")

RisksAbove(history, threshold) ==
    LET risky == SelectSeq(history, LAMBDA msg : msg.escalation_risk > threshold)
    IN [i \in DOMAIN risky |-> risky[i].escalation_risk]

\* C30: in every session the escalation alerts are, in order, the risks of
\* the customer messages of the conversation history whose risk exceeds
\* ESCALATION_THRESHOLD, one alert each and no other; every customer
\* message of the history has a sentiment score and an escalation risk.
C30_AlertsMatchHistory ==
    \A s \in Sessions :
        /\ \A i \in DOMAIN CustomerMessages(s) :
              {"sentiment_score", "escalation_risk"} \subseteq DOMAIN CustomerMessages(s)[i]
        /\ [i \in DOMAIN session_state[s].escalation_alerts |->
               session_state[s].escalation_alerts[i].risk]
              = RisksAbove(CustomerMessages(s), ESCALATION_THRESHOLD)

\* two turns of one session: the judge rates the first message 0.3, which
\* does not exceed the threshold, and fails on the second, rated 0.5 by the rule
C30_Witness ==
    \E s \in Sessions :
        /\ session_state[s].pc = "idle"
        /\ Len(CustomerMessages(s)) = 2
        /\ CustomerMessages(s)[1].escalation_risk = 30
        /\ CustomerMessages(s)[2].escalation_risk = 50
        /\ session_state[s].escalation_alerts = <<EscalationAlert(50)>>

====
